---- MODULE Spec2Model ----
(***************************************************************************)
(* Zotero2Readwise: the Readwise upload collaborator (readwise.py) and the *)
(* HTML-to-Markdown helper (helper.py).                                     *)
(*                                                                         *)
(* Strings.  A Python str is modelled in one of two exact encodings:        *)
(*   - a "text" is a run-length encoded string: a sequence of runs          *)
(*     [c |-> character, n |-> count], adjacent runs holding different      *)
(*     characters.  It denotes c1 repeated n1 times, then c2 repeated n2    *)
(*     times, ...  Annotation texts use it, so that MAX_LENGTH keeps its    *)
(*     value of 8000 characters.                                           *)
(*   - a "string" is a sequence of tokens, each a TLA+ string; it denotes   *)
(*     the concatenation of its tokens.  Notes, tags, page labels and HTML  *)
(*     use it.                                                             *)
(* Optional values: None is <<>> and a present value v is <<v>>.            *)
(***************************************************************************)
EXTENDS Integers, Sequences, FiniteSets, TLC

VARIABLES
    \* post_zotero_annotations_to_readwise (readwise.py)
    zotero_annotations, \* the input list
    pc,                 \* position of the call: "idle", "loop", "finish", "done", "raised"
    next_annot,         \* index of the annotation the for loop takes next
    rw_highlights,      \* the batch built so far (serialized highlight records)
    origin,             \* history: for each batch entry, <<annotation index, idx, len(segments)>>
    processed,          \* history: indices of the annotations the loop body ran for
    failed_highlights,  \* self.failed_highlights
    failed_origin,      \* history: for each entry of failed_highlights, the annotation index
    split_count, total_segments,
    uploads,            \* history: the highlights argument of every create_highlights call
    resp,               \* the response to the upload: None before it
    error_log,          \* the error log file: None, or <<[name, content]>>
    raised,             \* the exception that left the call: "" when none
    console,            \* what print() wrote, in order
    \* _split_long_text applied on its own
    s_pc, s_text, s_segments,
    \* html_to_markdown applied on its own
    h_pc, html_content, markdown,
    \* the clean-up passes of html_to_markdown applied to a string, and again
    p_pc, p_content, p_once, p_twice,
    \* read_library_version and write_library_version (helper.py)
    since,              \* the file 'since': None when it does not exist, or <<content>>
    l_pc,               \* "idle", "ready", "raised"
    l_returned,         \* what the last read_library_version returned: None before
    l_written,          \* history: the version the last write_library_version wrote
    l_console           \* what print() wrote, in order

vars == <<zotero_annotations, pc, next_annot, rw_highlights, origin, processed,
          failed_highlights, failed_origin, split_count, total_segments, uploads, resp,
          error_log, raised, console, s_pc, s_text, s_segments, h_pc, html_content, markdown,
          p_pc, p_content, p_once, p_twice, since, l_pc, l_returned, l_written, l_console>>

readwise_vars == <<zotero_annotations, pc, next_annot, rw_highlights, origin, processed,
          failed_highlights, failed_origin, split_count, total_segments, uploads, resp,
          error_log, raised, console>>
split_vars == <<s_pc, s_text, s_segments>>
html_vars == <<h_pc, html_content, markdown>>
post_vars == <<p_pc, p_content, p_once, p_twice>>
since_vars == <<since, l_pc, l_returned, l_written, l_console>>

None == <<>>
Some(v) == <<v>>

Last(s) == s[Len(s)]
Front(s) == SubSeq(s, 1, Len(s) - 1)

RECURSIVE Concat(_)
\* ''.join(list) on sequences of sequences
Concat(ss) == IF ss = <<>> THEN <<>> ELSE Head(ss) \o Concat(Tail(ss))

(***************************************************************************)
(* Run-length encoded texts                                                 *)
(***************************************************************************)
WORD == "a"     \* a non-whitespace character
SPACE == " "
NEWLINE == "\n"

Run(c, n) == [c |-> c, n |-> n]

RECURSIVE Norm(_)
\* the canonical encoding: adjacent runs of one character merged
Norm(t) ==
    IF Len(t) < 2 THEN t
    ELSE IF t[1].c = t[2].c
         THEN Norm(<<Run(t[1].c, t[1].n + t[2].n)>> \o SubSeq(t, 3, Len(t)))
         ELSE <<t[1]>> \o Norm(Tail(t))

RECURSIVE len(_)
\* len(text)
len(t) == IF t = <<>> THEN 0 ELSE Head(t).n + len(Tail(t))

RECURSIVE SplitFrom(_, _)
\* str.split("\n\n"), scanning left to right with cur the paragraph being read:
\* a run of n newlines holds n \div 2 separators one after the other and leaves
\* n % 2 newlines; with no separator in it the run belongs to the paragraph.
SplitFrom(t, cur) ==
    IF t = <<>> THEN <<cur>>
    ELSE LET r == Head(t) IN
         IF r.c = NEWLINE /\ r.n >= 2
         THEN <<cur>> \o [k \in 1..((r.n \div 2) - 1) |-> <<>>]
                \o SplitFrom(Tail(t), IF r.n % 2 = 1 THEN <<Run(NEWLINE, 1)>> ELSE <<>>)
         ELSE SplitFrom(Tail(t), Norm(cur \o <<r>>))

split_paragraphs(text) == SplitFrom(text, <<>>)

RECURSIVE join_paragraphs(_)
\* "\n\n".join(segments)
join_paragraphs(segments) ==
    IF segments = <<>> THEN <<>>
    ELSE IF Len(segments) = 1 THEN segments[1]
    ELSE Norm(segments[1] \o <<Run(NEWLINE, 2)>> \o join_paragraphs(Tail(segments)))

(***************************************************************************)
(* textwrap.wrap(para, width, break_long_words=False,                       *)
(*               break_on_hyphens=False)                                    *)
(***************************************************************************)
IsWhitespace(chunk) == chunk.c \in {SPACE, NEWLINE}

\* TextWrapper._munge_whitespace (replace_whitespace): every whitespace character
\* becomes a space.  TextWrapper._split with break_on_hyphens=False then cuts the
\* text at (\s+): the chunks are the runs of the munged text.
munge_whitespace(text) ==
    Norm([k \in 1..Len(text) |->
            IF IsWhitespace(text[k]) THEN Run(SPACE, text[k].n) ELSE text[k]])

RECURSIVE Fitting(_, _, _)
\* the inner while loop of _wrap_chunks: how many leading chunks fit the line
Fitting(chunks, cur_len, width) ==
    IF chunks = <<>> THEN 0
    ELSE IF cur_len + Head(chunks).n <= width
         THEN 1 + Fitting(Tail(chunks), cur_len + Head(chunks).n, width)
         ELSE 0

handle_long_word(chunks, cur_line) ==
    \* TextWrapper._handle_long_word with break_long_words=False: a chunk wider than
    \* the line goes whole on a line of its own, and stays for the next line otherwise
    IF cur_line = <<>> THEN <<<<Head(chunks)>>, Tail(chunks)>> ELSE <<cur_line, chunks>>

RECURSIVE wrap_chunks(_, _, _)
\* TextWrapper._wrap_chunks with drop_whitespace=True, no indent, no max_lines
wrap_chunks(chunks, lines, width) ==
    IF chunks = <<>> THEN lines
    ELSE LET \* a whitespace chunk that would start a line after the first is dropped
             c1 == IF IsWhitespace(Head(chunks)) /\ lines # <<>> THEN Tail(chunks) ELSE chunks
             k == Fitting(c1, 0, width)
             fit == SubSeq(c1, 1, k)
             left == SubSeq(c1, k + 1, Len(c1))
             lw == IF left # <<>> /\ Head(left).n > width
                   THEN handle_long_word(left, fit)
                   ELSE <<fit, left>>
             \* a whitespace chunk that would end the line is dropped
             cur_line == IF lw[1] # <<>> /\ IsWhitespace(Last(lw[1])) THEN Front(lw[1]) ELSE lw[1]
         IN  wrap_chunks(lw[2], IF cur_line # <<>> THEN Append(lines, cur_line) ELSE lines, width)

textwrap_wrap(para, width) == wrap_chunks(munge_whitespace(para), <<>>, width)

(***************************************************************************)
(* Readwise._split_long_text                                                *)
(***************************************************************************)
MAX_LENGTH == 8000

\* a faulty variant of segments_of_paragraph, which skips an empty paragraph
segments_of_paragraph_skip_empty(para) ==
    IF para = <<>> THEN <<>>
    ELSE IF len(para) <= MAX_LENGTH THEN <<para>> ELSE textwrap_wrap(para, MAX_LENGTH)

\* one turn of the loop over the paragraphs: what it adds to segments
segments_of_paragraph(para) ==
    IF len(para) <= MAX_LENGTH THEN <<para>> ELSE textwrap_wrap(para, MAX_LENGTH)

RECURSIVE extend_segments(_)
extend_segments(paragraphs) ==
    IF paragraphs = <<>> THEN <<>>
    ELSE segments_of_paragraph(Head(paragraphs)) \o extend_segments(Tail(paragraphs))

_split_long_text(text) ==
    IF len(text) <= MAX_LENGTH THEN <<text>>
    ELSE extend_segments(split_paragraphs(text))


(***************************************************************************)
(* Strings of tokens                                                        *)
(***************************************************************************)
Truthy(opt) == opt # None /\ opt[1] # <<>>     \* an Optional[str] that is neither None nor ""

\* str.lower(), str.strip() and str.replace(" ", "_") on the characters tags are made of
lower_char(c) == CASE c = "M" -> "m" [] c = "L" -> "l" [] OTHER -> c
lower(str) == [k \in 1..Len(str) |-> lower_char(str[k])]

Whitespace == {" ", "\n", "\t"}

RECURSIVE lstrip(_)
lstrip(str) == IF str # <<>> /\ Head(str) \in Whitespace THEN lstrip(Tail(str)) ELSE str
RECURSIVE rstrip(_)
rstrip(str) == IF str # <<>> /\ Last(str) \in Whitespace THEN rstrip(Front(str)) ELSE str
strip(str) == rstrip(lstrip(str))

replace_space_by_underscore(str) == [k \in 1..Len(str) |-> IF str[k] = " " THEN "_" ELSE str[k]]

\* helper.sanitize_tag
sanitize_tag(tag) == replace_space_by_underscore(strip(tag))

RECURSIVE join_with_space(_)
join_with_space(strs) ==
    IF strs = <<>> THEN <<>>
    ELSE IF Len(strs) = 1 THEN strs[1]
    ELSE strs[1] \o <<" ">> \o join_with_space(Tail(strs))

\* Readwise.convert_tags_to_readwise_format
convert_tags_to_readwise_format(tags) ==
    join_with_space([k \in 1..Len(tags) |-> <<".">> \o sanitize_tag(lower(tags[k]))])

\* Readwise.format_readwise_note: None when the note is empty
format_readwise_note(tags, comment) ==
    LET rw_tags == convert_tags_to_readwise_format(tags)
        highlight_note == (IF rw_tags # <<>> THEN rw_tags \o <<"\n">> ELSE <<>>)
                            \o (IF Truthy(comment) THEN comment[1] ELSE <<>>)
    IN  IF highlight_note # <<>> THEN Some(highlight_note) ELSE None

\* str.isnumeric(): a non-empty string of numeric characters.  "^2" stands for
\* SUPERSCRIPT TWO (U+00B2), numeric and no decimal digit.
DecimalDigits == {"0", "1", "2", "3", "4", "5", "6", "7", "8", "9"}
NumericChars == DecimalDigits \cup {"^2"}
isnumeric(str) == str # <<>> /\ \A k \in 1..Len(str) : str[k] \in NumericChars

digit_value(c) ==
    CASE c = "0" -> 0 [] c = "1" -> 1 [] c = "2" -> 2 [] c = "3" -> 3 [] c = "4" -> 4
      [] c = "5" -> 5 [] c = "6" -> 6 [] c = "7" -> 7 [] c = "8" -> 8 [] c = "9" -> 9

RECURSIVE decimal(_)
decimal(str) == IF str = <<>> THEN 0 ELSE 10 * decimal(Front(str)) + digit_value(Last(str))

\* int(str): [exc, v].  White space around the number is dropped, a sign may
\* lead it, and one underscore may stand between two digits; ValueError for
\* anything else.
int(str) ==
    LET stripped == strip(str)
        signed == stripped # <<>> /\ Head(stripped) \in {"+", "-"}
        body == IF signed THEN Tail(stripped) ELSE stripped
        wellformed ==
            /\ body # <<>>
            /\ \A k \in 1..Len(body) : body[k] \in DecimalDigits \cup {"_"}
            /\ Head(body) # "_" /\ Last(body) # "_"
            /\ \A k \in 1..(Len(body) - 1) : ~(body[k] = "_" /\ body[k + 1] = "_")
        magnitude == decimal(SelectSeq(body, LAMBDA c : c # "_"))
    IN  IF wellformed
        THEN [exc |-> "", v |-> IF signed /\ Head(stripped) = "-" THEN 0 - magnitude ELSE magnitude]
        ELSE [exc |-> "ValueError", v |-> 0]

DigitChars == <<"0", "1", "2", "3", "4", "5", "6", "7", "8", "9">>

RECURSIVE digits_of(_)
digits_of(n) == IF n < 10 THEN <<DigitChars[n + 1]>> ELSE Append(digits_of(n \div 10), DigitChars[(n % 10) + 1])

\* str(n) for an integer n
str_int(n) == IF n < 0 THEN <<"-">> \o digits_of(0 - n) ELSE digits_of(n)

RECURSIVE last_path_segment(_)
\* url.split("/")[-1]: what follows the last "/" token
last_path_segment(url) ==
    IF url = <<>> \/ Last(url) = "/" THEN <<>>
    ELSE Append(last_path_segment(Front(url)), Last(url))

(***************************************************************************)
(* ReadwiseHighlight                                                        *)
(***************************************************************************)
\* the truth value Python gives a field: location is an int or None, the others a
\* str or None
field_truthy(k, opt) ==
    IF k = "location" THEN opt # None /\ opt[1] # 0 ELSE Truthy(opt)

\* ReadwiseHighlight.__post_init__
post_init(location) == IF location = 0 THEN None ELSE Some(location)

\* ReadwiseHighlight.get_nonempty_params (and ZoteroItem.get_nonempty_params, the same
\* comprehension): the fields with a truthy value
get_nonempty_params(obj) ==
    [k \in {f \in DOMAIN obj : field_truthy(f, obj[f])} |-> obj[k][1]]

\* ReadwiseHighlight(...): the dataclass constructor with its defaults
ReadwiseHighlight(text, title, note, author, category, highlighted_at, source_url, highlight_url, location) ==
    [text |-> Some(text), title |-> title, author |-> author, image_url |-> None,
     source_url |-> source_url, source_type |-> None, category |-> Some(category),
     note |-> Some(note), location |-> post_init(location),
     location_type |-> Some(<<"page">>), highlighted_at |-> highlighted_at,
     highlight_url |-> highlight_url]

\* a faulty variant of _create_highlight_for_segment, which looks at the page
\* label and the urls of the annotation only from its second segment on
_create_highlight_for_segment_late(annot, segment_text, segment_note) ==
    LET continuation == segment_note # <<>> /\ Head(segment_note) \in {"(part 2/2) ", "(part 2/3) ", "(part 3/3) "}
        numeric == Truthy(annot.page_label) /\ isnumeric(annot.page_label[1])
        parsed == IF numeric /\ continuation THEN int(annot.page_label[1]) ELSE [exc |-> "", v |-> 0]
        has_attachment == continuation /\ annot.attachment_url # None
    IN  IF parsed.exc # "" THEN [exc |-> parsed.exc, hl |-> <<>>]
        ELSE IF has_attachment /\ annot.annotation_url = None
             THEN [exc |-> "AttributeError", hl |-> <<>>]
        ELSE [exc |-> "",
              hl |-> ReadwiseHighlight(segment_text, annot.title, segment_note,
                        annot.creators, <<"articles">>,
                        annot.annotated_at, annot.source_url, annot.annotation_url, parsed.v)]

\* Readwise._create_highlight_for_segment: [exc, hl]
_create_highlight_for_segment(annot, segment_text, segment_note) ==
    LET numeric == Truthy(annot.page_label) /\ isnumeric(annot.page_label[1])
        parsed == IF numeric THEN int(annot.page_label[1]) ELSE [exc |-> "", v |-> 0]
        location == parsed.v
        has_attachment == annot.attachment_url # None
        highlight_url ==
            IF has_attachment
            THEN Some(<<"zotero://open-pdf/library/items/">>
                        \o last_path_segment(annot.attachment_url[1])
                        \o <<"?page=", ToString(location), "%&annotation=">>
                        \o last_path_segment(annot.annotation_url[1]))
            ELSE annot.annotation_url
    IN  IF parsed.exc # "" THEN [exc |-> parsed.exc, hl |-> <<>>]
        ELSE IF has_attachment /\ annot.annotation_url = None
             THEN [exc |-> "AttributeError", hl |-> <<>>]
        ELSE [exc |-> "",
              hl |-> ReadwiseHighlight(segment_text, annot.title, segment_note,
                        annot.creators,
                        IF annot.document_type # Some(<<"book">>) THEN <<"articles">> ELSE <<"books">>,
                        annot.annotated_at, annot.source_url, highlight_url, location)]

(***************************************************************************)
(* The loop body of post_zotero_annotations_to_readwise                     *)
(***************************************************************************)
part_indicator(idx, n) == "(part " \o ToString(idx) \o "/" \o ToString(n) \o ") "

\* a faulty variant of segment_note, which counts the parts from 0
segment_note_from_zero(comment, idx, n) ==
    IF n > 1 THEN <<part_indicator(idx - 1, n)>> \o (IF Truthy(comment) THEN comment[1] ELSE <<>>)
    ELSE (IF Truthy(comment) THEN comment[1] ELSE <<>>)

\* segment_note for the idx-th of n segments (idx counts from 1)
segment_note(comment, idx, n) ==
    LET note == IF Truthy(comment) THEN comment[1] ELSE <<>>
    IN  IF n > 1 THEN <<part_indicator(idx, n)>> \o note ELSE note

RECURSIVE segments_loop_prepending(_, _, _, _)
\* a faulty variant of segments_loop, which puts each record before the others
segments_loop_prepending(annot, segments, idx, acc) ==
    IF idx > Len(segments) THEN [exc |-> "", batch |-> acc]
    ELSE LET r == _create_highlight_for_segment(annot, segments[idx],
                        segment_note(annot.comment, idx, Len(segments)))
         IN  IF r.exc # "" THEN [exc |-> r.exc, batch |-> acc]
             ELSE segments_loop_prepending(annot, segments, idx + 1,
                                <<get_nonempty_params(r.hl)>> \o acc)

RECURSIVE segments_loop(_, _, _, _)
\* the for loop over enumerate(segments, 1), from idx on: [exc, batch, parts], batch
\* being acc with the records appended before the loop ended or raised
segments_loop(annot, segments, idx, acc) ==
    IF idx > Len(segments) THEN [exc |-> "", batch |-> acc]
    ELSE LET r == _create_highlight_for_segment(annot, segments[idx],
                        segment_note(annot.comment, idx, Len(segments)))
         IN  IF r.exc # "" THEN [exc |-> r.exc, batch |-> acc]
             ELSE segments_loop(annot, segments, idx + 1,
                                Append(acc, get_nonempty_params(r.hl)))

\* the try block for one annotation: [exc, batch, segments, split]; split tells
\* whether split_count and total_segments were raised before the block ended
try_annotation(annot) ==
    IF annot.text = None
    THEN [exc |-> "TypeError", batch |-> <<>>, segments |-> <<>>, split |-> FALSE]   \* len(None)
    ELSE LET segments == _split_long_text(annot.text[1])
             r == segments_loop(annot, segments, 1, <<>>)
         IN  [exc |-> r.exc, batch |-> r.batch, segments |-> segments,
              split |-> Len(segments) > 1]

(***************************************************************************)
(* helper.html_to_markdown                                                  *)
(*                                                                         *)
(* The content is a string of tokens: a tag is one token ("<pre>"), a       *)
(* character of text is one token ("x", " ", "\n", "#", "-"), an entity is  *)
(* one token ("&amp;"), and "alert" is the text of a script or style        *)
(* element.  Each substitution of the                                       *)
(* function is an operator on such strings; they are applied in the order   *)
(* of the source.  The substitutions whose pattern needs a character no     *)
(* token holds leave every content of the model as it is and are not        *)
(* applied: the math patterns (lines 70-75, 174-225: "class=", "\", "[",    *)
(* "(", "$"), the literal test case (51-52), comments (87: "!"), <code>     *)
(* (99, 101),                                                              *)
(* <blockquote> (106), <h1>..<h6> (111-112), <div> (115), <hr>, <br> (119,  *)
(* 122), <li>, <ul>, <ol> (139-143), <strong>, <b>, <em>, <i>, <a>          *)
(* (149-155).                                                               *)
(***************************************************************************)
StyleOpen == {"<style>"}            \* the tokens <style[^>]*> matches
ScriptOpen == {"<script>"}          \* the tokens <script[^>]*> matches
ParagraphOpen == {"<p>", "<pre>"}   \* the tokens <p[^>]*> matches
TagTokens == {"<pre>", "</pre>", "<p>", "</p>", "<script>", "</script>", "<SCRIPT>",
              "</SCRIPT>", "<style>", "</style>", "<STYLE>", "</STYLE>"}

Drop(str, k) == SubSeq(str, k + 1, Len(str))
StartsWith(str, prefix) == Len(str) >= Len(prefix) /\ SubSeq(str, 1, Len(prefix)) = prefix

\* the leftmost match of  open.*?close  (DOTALL): <<first, last>> token, <<0, 0>>
\* when there is none
Search(content, Opens, close) ==
    LET starts == {i \in 1..Len(content) :
                      content[i] \in Opens /\ \E j \in (i + 1)..Len(content) : content[j] = close}
    IN  IF starts = {} THEN <<0, 0>>
        ELSE LET i == CHOOSE x \in starts : \A y \in starts : x <= y
                 j == CHOOSE x \in (i + 1)..Len(content) :
                        content[x] = close /\ \A y \in (i + 1)..(x - 1) : content[y] # close
             IN  <<i, j>>

RECURSIVE remove_elements(_, _, _)
\* re.sub(r'<tag[^>]*>.*?</tag>', '', content, flags=re.DOTALL)
remove_elements(content, Opens, close) ==
    LET m == Search(content, Opens, close)
    IN  IF m[1] = 0 THEN content
        ELSE SubSeq(content, 1, m[1] - 1) \o remove_elements(Drop(content, m[2]), Opens, close)

code_block_placeholder(k) == "CODE_BLOCK_PLACEHOLDER_" \o ToString(k)

RECURSIVE save_code_blocks(_, _)
\* re.sub(r'<pre>(.*?)</pre>', save_code_block, ...): [content, code_blocks]
save_code_blocks(content, code_blocks) ==
    LET m == Search(content, {"<pre>"}, "</pre>")
    IN  IF m[1] = 0 THEN [content |-> content, code_blocks |-> code_blocks]
        ELSE LET code == rstrip(SubSeq(content, m[1] + 1, m[2] - 1))
                 rest == save_code_blocks(Drop(content, m[2]), Append(code_blocks, code))
             IN  [content |-> SubSeq(content, 1, m[1] - 1)
                                \o <<code_block_placeholder(Len(code_blocks))>> \o rest.content,
                  code_blocks |-> rest.code_blocks]

RECURSIVE paragraphs(_)
\* re.sub(r'<p[^>]*>(.*?)</p>', r'\n\1\n', ...)
paragraphs(content) ==
    LET m == Search(content, ParagraphOpen, "</p>")
    IN  IF m[1] = 0 THEN content
        ELSE SubSeq(content, 1, m[1] - 1) \o <<"\n">> \o SubSeq(content, m[1] + 1, m[2] - 1)
                \o <<"\n">> \o paragraphs(Drop(content, m[2]))

\* html.unescape: an entity becomes its character; "&amp;lt;" is the entity
\* "&amp;" before the characters "lt;", and becomes the characters "&lt;"
unescape_token(tok) ==
    CASE tok = "&amp;" -> "&"
      [] tok = "&lt;" -> "<"
      [] tok = "&gt;" -> ">"
      [] tok = "&amp;lt;" -> "&lt;"
      [] OTHER -> tok

unescape(html) == [k \in 1..Len(html) |-> unescape_token(html[k])]

\* content.replace("&lt;", "<").replace("&gt;", ">").replace("&amp;", "&")
replace_entities(content) ==
    [k \in 1..Len(content) |->
        CASE content[k] = "&lt;" -> "<"
          [] content[k] = "&gt;" -> ">"
          [] content[k] \in {"&amp;", "&amp;lt;"} -> unescape_token(content[k])
          [] OTHER -> content[k]]

\* the token holds the character ">": a tag, or the character itself
HoldsGt(tok) == tok \in TagTokens \cup {">"}

RECURSIVE remove_tags(_)
\* re.sub(r'<[^>]+>', '', content): a tag is removed, and so is a "<" with all
\* that follows it up to the next ">", when something lies between the two
remove_tags(content) ==
    IF content = <<>> THEN <<>>
    ELSE IF Head(content) \in TagTokens THEN remove_tags(Tail(content))
    ELSE IF Head(content) = "<"
         THEN LET ends == {j \in 2..Len(content) : HoldsGt(content[j])}
              IN  IF ends = {} THEN <<"<">> \o remove_tags(Tail(content))
                  ELSE LET j == CHOOSE x \in ends : \A y \in ends : x <= y
                       IN  IF j = 2 /\ content[j] = ">"
                           THEN <<"<">> \o remove_tags(Tail(content))
                           ELSE remove_tags(Drop(content, j))
    ELSE <<Head(content)>> \o remove_tags(Tail(content))

RECURSIVE LeadingRun(_, _)
LeadingRun(str, c) == IF str # <<>> /\ Head(str) = c THEN 1 + LeadingRun(Tail(str), c) ELSE 0

RECURSIVE collapse_runs(_, _, _, _)
\* re.sub of c{atleast,} by to times c
collapse_runs(str, c, atleast, to) ==
    IF str = <<>> THEN <<>>
    ELSE LET k == LeadingRun(str, c)
         IN  IF k = 0 THEN <<Head(str)>> \o collapse_runs(Tail(str), c, atleast, to)
             ELSE [x \in 1..(IF k >= atleast THEN to ELSE k) |-> c]
                    \o collapse_runs(Drop(str, k), c, atleast, to)

RECURSIVE remove_spaces_after_newline(_)
\* re.sub(r'\n +', "\n", content)
remove_spaces_after_newline(str) ==
    IF str = <<>> THEN <<>>
    ELSE IF Head(str) = "\n"
         THEN <<"\n">> \o remove_spaces_after_newline(Drop(Tail(str), LeadingRun(Tail(str), " ")))
         ELSE <<Head(str)>> \o remove_spaces_after_newline(Tail(str))

\* the three backquotes of a code fence (a TLA+ string holds no backquote)
FENCE == "'''"

\* content.replace(placeholder, FENCE + "\n" + code + "\n" + FENCE) for every code block
restore_code_blocks(content, code_blocks) ==
    Concat([k \in 1..Len(content) |->
        IF \E b \in 1..Len(code_blocks) : content[k] = code_block_placeholder(b - 1)
        THEN LET b == CHOOSE x \in 1..Len(code_blocks) : content[k] = code_block_placeholder(x - 1)
             IN  <<FENCE, "\n">> \o code_blocks[b] \o <<"\n", FENCE>>
        ELSE <<content[k]>>])

RECURSIVE split_lines(_, _)
\* content.split("\n"), cur the line being read
split_lines(content, cur) ==
    IF content = <<>> THEN <<cur>>
    ELSE IF Head(content) = "\n" THEN <<cur>> \o split_lines(Tail(content), <<>>)
    ELSE split_lines(Tail(content), Append(cur, Head(content)))

RECURSIVE join_lines(_)
\* "\n".join(lines)
join_lines(lines) ==
    IF lines = <<>> THEN <<>>
    ELSE IF Len(lines) = 1 THEN lines[1]
    ELSE lines[1] \o <<"\n">> \o join_lines(Tail(lines))

\* "Fix any broken list indentation": a list line is written again as its
\* indentation in spaces and its text
fix_list_indentation(content) ==
    LET lines == split_lines(content, <<>>)
        fixed(line) ==
            LET stripped == lstrip(line)
                indent_level == Len(line) - Len(stripped)      \* line.find("-")
            IN  IF StartsWith(stripped, <<"-", " ">>)
                THEN [k \in 1..indent_level |-> " "] \o stripped
                ELSE line
    IN  join_lines([k \in 1..Len(lines) |-> fixed(lines[k])])

MAX_LINE_WIDTH == 100

RECURSIVE line_width(_)
\* len(line), in characters
line_width(line) == IF line = <<>> THEN 0 ELSE Len(Head(line)) + line_width(Tail(line))

\* "Wrap normal paragraph text": a line within MAX_LINE_WIDTH is appended as it
\* is.  textwrap.fill, for a longer line, is not modelled: the operator has no
\* value there.
wrap_paragraph_line(line) == CASE line_width(line) <= MAX_LINE_WIDTH -> line

RECURSIVE wrap_lines(_, _, _)
\* the loop over content.split("\n") of "Wrap long lines"
wrap_lines(lines, in_code_block, in_math_block) ==
    IF lines = <<>> THEN <<>>
    ELSE LET line == Head(lines) IN
         IF StartsWith(line, <<FENCE>>)
         THEN <<line>> \o wrap_lines(Tail(lines), ~in_code_block, in_math_block)
         ELSE IF StartsWith(line, <<"$$">>)
         THEN <<line>> \o wrap_lines(Tail(lines), in_code_block, ~in_math_block)
         ELSE IF \/ in_code_block \/ in_math_block
                 \/ StartsWith(line, <<"#">>) \/ strip(line) = <<"-", "-", "-">> \/ strip(line) = <<>>
                 \/ StartsWith(line, <<"-", " ">>) \/ StartsWith(line, <<" ", " ">>)
                 \/ Len(SelectSeq(line, LAMBDA tok : tok = "$")) = 1
         THEN <<line>> \o wrap_lines(Tail(lines), in_code_block, in_math_block)
         ELSE <<wrap_paragraph_line(line)>> \o wrap_lines(Tail(lines), in_code_block, in_math_block)

wrap_long_lines(content) == join_lines(wrap_lines(split_lines(content, <<>>), FALSE, FALSE))

RECURSIVE replace(_, _, _)
\* re.sub of a pattern that is a literal string
replace(str, old, new) ==
    IF str = <<>> THEN <<>>
    ELSE IF StartsWith(str, old) THEN new \o replace(Drop(str, Len(old)), old, new)
    ELSE <<Head(str)>> \o replace(Tail(str), old, new)

RECURSIVE blank_line_before_headings(_)
\* re.sub(r'([^\n])\n(#+\s)', r'\1\n\n\2', content)
blank_line_before_headings(str) ==
    IF Len(str) < 4 THEN str
    ELSE LET hashes == LeadingRun(Drop(str, 2), "#")
         IN  IF /\ str[1] # "\n" /\ str[2] = "\n" /\ hashes >= 1
                /\ Len(str) >= 3 + hashes /\ str[3 + hashes] \in Whitespace
             THEN <<str[1], "\n", "\n">> \o SubSeq(str, 3, 3 + hashes)
                    \o blank_line_before_headings(Drop(str, 3 + hashes))
             ELSE <<Head(str)>> \o blank_line_before_headings(Tail(str))

\* lines 284-298: the final cleanup
final_cleanup(content) ==
    LET c1 == collapse_runs(content, "\n", 3, 2)
        c2 == replace(c1, <<"\n", "\n", "-", " ">>, <<"\n", "-", " ">>)
        c3 == replace(c2, <<"\n", "\n", "\n">>, <<"\n", "\n">>)
        c4 == replace(c3, <<"\n", "-", " ", "\n", "\n", "-", " ">>, <<"\n", "-", " ", "\n", "-", " ">>)
        c5 == blank_line_before_headings(c4)
    IN  strip(c5)

\* lines 162-167: "Clean up and polish", before the code blocks come back
clean_up(content) ==
    remove_spaces_after_newline(
        collapse_runs(collapse_runs(content, "\n", 3, 2), " ", 2, 1))

html_to_markdown(html) ==
    IF html = <<>> THEN <<>>
    ELSE LET content == replace_entities(unescape(html))
             no_style == remove_elements(content, StyleOpen, "</style>")
             no_script == remove_elements(no_style, ScriptOpen, "</script>")
             saved == save_code_blocks(no_script, <<>>)
             blocks == paragraphs(saved.content)
             text == remove_tags(blocks)
             restored == restore_code_blocks(clean_up(text), saved.code_blocks)
             wrapped == wrap_long_lines(fix_list_indentation(restored))
         IN  final_cleanup(wrapped)

\* lines 160-298: all that html_to_markdown does to the content once the tags
\* are gone, for a content that holds no code block
post_process(content) ==
    final_cleanup(wrap_long_lines(fix_list_indentation(
        restore_code_blocks(clean_up(content), <<>>))))

(***************************************************************************)
(* helper.read_library_version, helper.write_library_version                *)
(*                                                                         *)
(* file is the file 'since': None when it does not exist, or <<content>>,   *)
(* a readable text file.                                                    *)
(***************************************************************************)
\* [exc, v, console]: the exception that leaves the call ("" when none), the
\* value returned and what was printed
read_library_version(file) ==
    IF file = None
    THEN [exc |-> "", v |-> 0,
          console |-> <<"since file does not exist, using library version 0">>]
    ELSE LET parsed == int(file[1])
         IN  IF parsed.exc = "ValueError"
             THEN [exc |-> "", v |-> 0,
                   console |-> <<"since file does not include a number, using library version 0">>]
             ELSE [exc |-> parsed.exc, v |-> parsed.v, console |-> <<>>]

\* a faulty variant of open_for_writing: the file is opened for appending
open_for_appending(file) == IF file = None THEN Some(<<>>) ELSE file

\* the file after open('since', 'w'): it exists and is empty
open_for_writing(file) == Some(<<>>)

\* file.write(text)
file_write(file, text) == Some(file[1] \o text)

\* the parts of the state a specification leaves alone
ReadwiseIdle ==
    /\ zotero_annotations = <<>> /\ pc = "idle" /\ next_annot = 1
    /\ rw_highlights = <<>> /\ origin = <<>> /\ processed = {}
    /\ failed_highlights = <<>> /\ failed_origin = <<>> /\ split_count = 0 /\ total_segments = 0
    /\ uploads = <<>> /\ resp = None /\ error_log = None /\ raised = "" /\ console = <<>>

SplitIdle == s_pc = "idle" /\ s_text = <<>> /\ s_segments = <<>>

HtmlIdle == h_pc = "idle" /\ html_content = <<>> /\ markdown = <<>>

PostIdle == p_pc = "idle" /\ p_content = <<>> /\ p_once = <<>> /\ p_twice = <<>>

SinceIdle ==
    since = None /\ l_pc = "idle" /\ l_returned = None /\ l_written = None /\ l_console = <<>>

(***************************************************************************)
(* Inputs: annotations, and the responses of the Readwise API               *)
(***************************************************************************)
MaxAnnotations == 2

ShortText == <<Run(WORD, 5)>>
TwoParagraphs == <<Run(WORD, 8000), Run(NEWLINE, 2), Run(WORD, 1)>>
EmptyParagraph == <<Run(WORD, 8000), Run(NEWLINE, 4), Run(WORD, 1)>>
WrappedParagraph == <<Run(WORD, 4000), Run(SPACE, 1), Run(WORD, 4000), Run(NEWLINE, 1), Run(WORD, 4000)>>
LongWord == <<Run(WORD, 8001)>>
Blank == <<Run(SPACE, 8001)>>

ItemUrl(key) == Some(<<"https:", "/", "/", "api.zotero.org", "/", "items", "/", key>>)

ZoteroItem(text, comment, tags, page_label) ==
    [text |-> text, title |-> Some(<<"Title">>), creators |-> Some(<<"Author">>),
     tags |-> tags, comment |-> comment, page_label |-> page_label,
     document_type |-> Some(<<"journalArticle">>), attachment_url |-> None,
     annotation_url |-> ItemUrl("ANNOT"), source_url |-> None,
     annotated_at |-> Some(<<"2024-01-01">>)]

Comment == Some(<<"c">>)
Tags == << <<" ", "M", "L", " ", "x", " ">>, <<"y">> >>

Annotations ==
    \* texts of every shape, with and without a comment
    {ZoteroItem(Some(t), c, <<>>, Some(<<"7">>)) :
        t \in {ShortText, TwoParagraphs, EmptyParagraph, WrappedParagraph, LongWord, Blank},
        c \in {None, Comment}}
    \* tags
    \cup {ZoteroItem(Some(t), c, Tags, Some(<<"7">>)) :
        t \in {ShortText, TwoParagraphs}, c \in {None, Comment}}
    \* page labels
    \cup {ZoteroItem(Some(ShortText), Comment, <<>>, p) :
        p \in {None, Some(<<>>), Some(<<"0">>), Some(<<"1", "2">>), Some(<<"i", "v">>),
               Some(<<"^2">>)}}
    \* no text; a book with an attachment; an attachment and no annotation url
    \cup {ZoteroItem(None, Comment, <<>>, Some(<<"7">>)),
          [ZoteroItem(Some(ShortText), Comment, <<>>, Some(<<"7">>)) EXCEPT
                !.document_type = Some(<<"book">>), !.attachment_url = ItemUrl("ATTACH")],
          [ZoteroItem(Some(TwoParagraphs), Comment, <<>>, Some(<<"7">>)) EXCEPT
                !.attachment_url = ItemUrl("ATTACH"), !.annotation_url = None]}

RECURSIVE ListsOf(_, _)
ListsOf(S, k) == IF k = 0 THEN {<<>>} ELSE {Append(l, x) : l \in ListsOf(S, k - 1), x \in S}

AnnotationLists == UNION {ListsOf(Annotations, k) : k \in 0..MaxAnnotations}

\* ZoteroItem.get_nonempty_params: the fields with a truthy value (tags is a list)
ZoteroItem_get_nonempty_params(annot) ==
    [k \in {f \in DOMAIN annot :
                IF f = "tags" THEN annot[f] # <<>> ELSE Truthy(annot[f])} |->
        IF k = "tags" THEN annot[k] ELSE annot[k][1]]

ErrorBody == <<"{", "\"detail\"", ":", " ", " ", "\"Invalid token\"", "}">>
GatewayPage == <<"<html>", "502 Bad Gateway", "</html>">>

Responses == {[status_code |-> 200, body |-> <<"[", "]">>],
              [status_code |-> 401, body |-> ErrorBody],
              [status_code |-> 502, body |-> GatewayPage],
              [status_code |-> 502, body |-> <<>>]}

\* Response.json(): [exc, v]; the value is the body's tokens, the white space
\* between them gone
json(body) ==
    IF body # <<>> /\ ((Head(body) = "{" /\ Last(body) = "}") \/ (Head(body) = "[" /\ Last(body) = "]"))
    THEN [exc |-> "", v |-> SelectSeq(body, LAMBDA tok : tok # " ")]
    ELSE [exc |-> "JSONDecodeError", v |-> <<>>]

RECURSIVE dump(_)
\* json.dump: the value written with ": " after a key
dump(v) ==
    IF v = <<>> THEN <<>>
    ELSE IF Head(v) = ":" THEN <<":", " ">> \o dump(Tail(v)) ELSE <<Head(v)>> \o dump(Tail(v))

(***************************************************************************)
(* Readwise.post_zotero_annotations_to_readwise                             *)
(***************************************************************************)
Message(msg, args) == [msg |-> msg, args |-> args]

\* the call, to the entry of the for loop
Call ==
    /\ pc = "idle"
    /\ \E annots \in AnnotationLists : zotero_annotations' = annots
    /\ console' = <<Message("push", <<Len(zotero_annotations')>>)>>
    /\ rw_highlights' = <<>> /\ split_count' = 0 /\ total_segments' = 0
    /\ next_annot' = 1
    /\ pc' = "loop"
    /\ UNCHANGED <<origin, processed, failed_highlights, failed_origin, uploads, resp, error_log, raised,
                   split_vars, html_vars,
                   post_vars, since_vars>>

\* a faulty variant of ProcessAnnotation, without the except clause: the exception
\* leaves the call
ProcessAnnotationUncaught ==
    /\ pc = "loop" /\ next_annot <= Len(zotero_annotations)
    /\ LET annot == zotero_annotations[next_annot]
           r == try_annotation(annot)
       IN  /\ rw_highlights' = rw_highlights \o r.batch
           /\ origin' = origin \o [k \in 1..Len(r.batch) |-> <<next_annot, k, Len(r.segments)>>]
           /\ split_count' = split_count + (IF r.split THEN 1 ELSE 0)
           /\ total_segments' = total_segments + (IF r.split THEN Len(r.segments) ELSE 0)
           /\ IF r.exc # ""
              THEN raised' = r.exc /\ pc' = "raised" /\ UNCHANGED <<next_annot, processed>>
              ELSE /\ processed' = processed \cup {next_annot}
                   /\ next_annot' = next_annot + 1
                   /\ UNCHANGED <<raised, pc>>
    /\ UNCHANGED <<zotero_annotations, failed_highlights, failed_origin, uploads, resp, error_log, console,
                   split_vars, html_vars,
                   post_vars, since_vars>>

\* a faulty variant of ProcessAnnotation, with the upload inside the loop: one call
\* per annotation
ProcessAnnotationUploading ==
    /\ pc = "loop" /\ next_annot <= Len(zotero_annotations)
    /\ LET annot == zotero_annotations[next_annot]
           r == try_annotation(annot)
       IN  /\ rw_highlights' = rw_highlights \o r.batch
           /\ origin' = origin \o [k \in 1..Len(r.batch) |-> <<next_annot, k, Len(r.segments)>>]
           /\ split_count' = split_count + (IF r.split THEN 1 ELSE 0)
           /\ total_segments' = total_segments + (IF r.split THEN Len(r.segments) ELSE 0)
           /\ uploads' = Append(uploads, rw_highlights')
           /\ IF r.exc # ""
              THEN /\ failed_highlights' =
                        Append(failed_highlights, ZoteroItem_get_nonempty_params(annot))
                   /\ failed_origin' = Append(failed_origin, next_annot)
                   /\ console' = Append(console, Message("error", <<next_annot>>))
              ELSE UNCHANGED <<failed_highlights, failed_origin, console>>
    /\ processed' = processed \cup {next_annot}
    /\ next_annot' = next_annot + 1
    /\ UNCHANGED <<zotero_annotations, pc, resp, error_log, raised, split_vars, html_vars,
                   post_vars, since_vars>>

\* one turn of the for loop: the try block, and the except clause when it raised
ProcessAnnotation ==
    /\ pc = "loop" /\ next_annot <= Len(zotero_annotations)
    /\ LET annot == zotero_annotations[next_annot]
           r == try_annotation(annot)
       IN  /\ rw_highlights' = rw_highlights \o r.batch
           /\ origin' = origin \o [k \in 1..Len(r.batch) |-> <<next_annot, k, Len(r.segments)>>]
           /\ split_count' = split_count + (IF r.split THEN 1 ELSE 0)
           /\ total_segments' = total_segments + (IF r.split THEN Len(r.segments) ELSE 0)
           /\ IF r.exc # ""
              THEN /\ failed_highlights' =
                        Append(failed_highlights, ZoteroItem_get_nonempty_params(annot))
                   /\ failed_origin' = Append(failed_origin, next_annot)
                   /\ console' = Append(console, Message("error", <<next_annot>>))
              ELSE UNCHANGED <<failed_highlights, failed_origin, console>>
    /\ processed' = processed \cup {next_annot}
    /\ next_annot' = next_annot + 1
    /\ UNCHANGED <<zotero_annotations, pc, uploads, resp, error_log, raised,
                   split_vars, html_vars,
                   post_vars, since_vars>>

\* after the loop: the summary of the splitting, and create_highlights(rw_highlights)
CreateHighlights ==
    /\ pc = "loop" /\ next_annot > Len(zotero_annotations)
    /\ \E response \in Responses :
        LET parsed == json(response.body)
            summary == IF split_count > 0
                       THEN <<Message("split", <<split_count, total_segments>>)>> ELSE <<>>
        IN  /\ uploads' = Append(uploads, rw_highlights)
            /\ resp' = Some(response)
            /\ console' = console \o summary
            /\ IF response.status_code = 200
               THEN pc' = "finish" /\ UNCHANGED <<error_log, raised>>
               ELSE /\ pc' = "raised"
                    \* open(error_log_file, "w") creates the file; resp.json() may raise
                    /\ IF parsed.exc # ""
                       THEN /\ error_log' = Some([name |-> response.status_code, content |-> <<>>])
                            /\ raised' = parsed.exc
                       ELSE /\ error_log' = Some([name |-> response.status_code,
                                                  content |-> dump(parsed.v)])
                            /\ raised' = "Zotero2ReadwiseError"
    /\ UNCHANGED <<zotero_annotations, next_annot, rw_highlights, origin, processed,
                   failed_highlights, failed_origin, split_count, total_segments, split_vars, html_vars,
                   post_vars, since_vars>>

\* the completion message
Finish ==
    /\ pc = "finish"
    /\ console' = Append(console,
            Message("finished", <<Len(failed_highlights), Len(failed_highlights),
                                  Len(rw_highlights)>>))
    /\ pc' = "done"
    /\ UNCHANGED <<zotero_annotations, next_annot, rw_highlights, origin, processed,
                   failed_highlights, failed_origin, split_count, total_segments, uploads, resp,
                   error_log, raised, split_vars, html_vars,
                   post_vars, since_vars>>

(***************************************************************************)
(* _split_long_text on its own: every text of at most MaxRuns runs          *)
(***************************************************************************)
MaxRuns == 4

\* run lengths on both sides of MAX_LENGTH and of its half
WordRuns == {Run(WORD, n) : n \in {1, 4000, 8001}}
SpaceRuns == {Run(SPACE, n) : n \in {1, 8001}}
NewlineRuns == {Run(NEWLINE, n) : n \in {1, 2, 3, 4}}
Runs == WordRuns \cup SpaceRuns \cup NewlineRuns

RECURSIVE TextsOfRuns(_)
\* the sequences of exactly k runs
TextsOfRuns(k) ==
    IF k = 0 THEN {<<>>}
    ELSE {Append(t, r) : t \in TextsOfRuns(k - 1), r \in Runs}

Canonical(t) == \A k \in 1..(Len(t) - 1) : t[k].c # t[k + 1].c

Texts == UNION {{t \in TextsOfRuns(k) : Canonical(t)} : k \in 0..MaxRuns}

SplitInit ==
    /\ s_pc = "call" /\ s_text \in Texts /\ s_segments = <<>>
    /\ ReadwiseIdle /\ HtmlIdle /\ PostIdle /\ SinceIdle

SplitLongText ==
    /\ s_pc = "call"
    /\ s_segments' = _split_long_text(s_text)
    /\ s_pc' = "returned"
    /\ UNCHANGED <<s_text, readwise_vars, html_vars, post_vars, since_vars>>

SplitNext == SplitLongText

SpecSplit == SplitInit /\ [][SplitNext]_vars


\* the paragraphs of the text are all within the threshold: none is wrapped
NoParagraphWrapped(text) ==
    \A k \in 1..Len(split_paragraphs(text)) : len(split_paragraphs(text)[k]) <= MAX_LENGTH

\* C3 (as claimed): for every text longer than MAX_LENGTH, every segment that
\* _split_long_text returns is at most MAX_LENGTH characters long, a paragraph
\* made of one unbroken word longer than MAX_LENGTH included.
C3_EverySegmentWithinThreshold ==
    (s_pc = "returned" /\ len(s_text) > MAX_LENGTH)
        => \A k \in 1..Len(s_segments) : len(s_segments[k]) <= MAX_LENGTH

\* C4 (as claimed): for every text longer than MAX_LENGTH, joining the returned
\* segments with the paragraph separator gives back the text, wrapped paragraphs
\* included.
C4_JoinReconstructsEveryText ==
    (s_pc = "returned" /\ len(s_text) > MAX_LENGTH)
        => join_paragraphs(s_segments) = s_text

\* C4 (amended): for every text longer than MAX_LENGTH none of whose paragraphs
\* exceeds MAX_LENGTH, joining the returned segments with the paragraph separator
\* gives back the text exactly.
C4_JoinReconstructsUnwrappedText ==
    (s_pc = "returned" /\ len(s_text) > MAX_LENGTH /\ NoParagraphWrapped(s_text))
        => join_paragraphs(s_segments) = s_text

\* C4 witness: a long text was split at its paragraph separators only, one of its
\* paragraphs being empty.
C4_LongTextSplitAtParagraphs ==
    /\ s_pc = "returned" /\ len(s_text) > MAX_LENGTH /\ NoParagraphWrapped(s_text)
    /\ Len(s_segments) >= 3
    /\ \E k \in 1..Len(s_segments) : s_segments[k] = <<>>


Init == ReadwiseIdle /\ SplitIdle /\ HtmlIdle /\ PostIdle /\ SinceIdle

Next == Call \/ ProcessAnnotation \/ CreateHighlights \/ Finish

Spec == Init /\ [][Next]_vars


(***************************************************************************)
(* Properties of post_zotero_annotations_to_readwise                        *)
(***************************************************************************)
AnnotationExceptions == {"TypeError", "ValueError", "AttributeError"}

\* the annotation's processing raises
Raises(annot) == try_annotation(annot).exc # ""

RECURSIVE BatchOf(_)
\* what the try blocks of the annotations append to the batch, in input order
BatchOf(annots) ==
    IF annots = <<>> THEN <<>>
    ELSE BatchOf(Front(annots)) \o try_annotation(Last(annots)).batch

LoopIsOver == pc \in {"finish", "done", "raised"}

\* C1: an exception raised while an annotation is processed does not leave the
\* call; the annotation is appended to failed_highlights; and the annotations after
\* it are processed all the same (each one's records are in the batch, or it is in
\* failed_highlights in its turn), before the loop is over.
C1_FailedAnnotationDoesNotAbortTheBatch ==
    /\ raised \notin AnnotationExceptions
    /\ processed = 1..(next_annot - 1)
    /\ LoopIsOver => processed = 1..Len(zotero_annotations)
    /\ failed_highlights =
          [k \in 1..Len(failed_highlights) |->
              ZoteroItem_get_nonempty_params(
                  SelectSeq(SubSeq(zotero_annotations, 1, next_annot - 1), Raises)[k])]
    /\ Len(failed_highlights) =
          Len(SelectSeq(SubSeq(zotero_annotations, 1, next_annot - 1), Raises))
    /\ rw_highlights = BatchOf(SubSeq(zotero_annotations, 1, next_annot - 1))

\* C1 witness: the call completed although its first annotation raised, and the
\* annotation after it gave the batch its records.
C1_CompletedPastAFailedAnnotation ==
    /\ pc = "done" /\ Len(zotero_annotations) = 2
    /\ Raises(zotero_annotations[1]) /\ ~Raises(zotero_annotations[2])
    /\ Len(failed_highlights) = 1
    /\ rw_highlights # <<>> /\ \A k \in 1..Len(origin) : origin[k][1] = 2

HasFinishedMessage == \E k \in 1..Len(console) : console[k].msg = "finished"

\* C2 (as claimed): create_highlights raises Zotero2ReadwiseError if and only if
\* the response status is not 200; when it raises, the response body has been
\* written to the error log file; and the call then ends without its completion
\* message.
C2_UploadErrorRaisedAfterLogging ==
    resp # None =>
        /\ (raised = "Zotero2ReadwiseError") <=> (resp[1].status_code # 200)
        /\ raised = "Zotero2ReadwiseError" =>
              (error_log # None /\ error_log[1].content = dump(json(resp[1].body).v))
        /\ raised # "" => ~HasFinishedMessage

\* the note without its part indicator
NoteText(record, n) ==
    IF "note" \notin DOMAIN record THEN <<>>
    ELSE IF n > 1 THEN Tail(record.note) ELSE record.note

\* C5 (as claimed): the note of every record of the batch is the tag list of its
\* annotation in Readwise format followed by the comment.
C5_NoteCarriesTheTags ==
    \A k \in 1..Len(rw_highlights) :
        LET annot == zotero_annotations[origin[k][1]]
            note == format_readwise_note(annot.tags, annot.comment)
        IN  NoteText(rw_highlights[k], origin[k][3]) = (IF note = None THEN <<>> ELSE note[1])

\* C6: an annotation whose text gives n > 1 segments has its i-th segment as the
\* text of a record of its own whose note starts with "(part i/n) "; with one
\* segment the note is the comment, with no part indicator (a record holds no
\* entry for an empty text or an empty note).
C6_EverySegmentIsAHighlightWithItsPart ==
    \A k \in 1..Len(rw_highlights) :
        LET annot == zotero_annotations[origin[k][1]]
            i == origin[k][2]
            n == origin[k][3]
            segments == _split_long_text(annot.text[1])
            record == rw_highlights[k]
            comment == IF Truthy(annot.comment) THEN annot.comment[1] ELSE <<>>
        IN  /\ n = Len(segments) /\ i \in 1..n
            /\ IF segments[i] = <<>> THEN "text" \notin DOMAIN record
               ELSE record.text = segments[i]
            /\ n > 1 => /\ "note" \in DOMAIN record
                        /\ Head(record.note) = "(part " \o ToString(i) \o "/" \o ToString(n) \o ") "
                        /\ Tail(record.note) = comment
            /\ n = 1 => IF comment = <<>> THEN "note" \notin DOMAIN record
                        ELSE record.note = comment

\* the records of the batch that come from annotation j, in batch order
RecordsOf(j) == SelectSeq([k \in 1..Len(origin) |-> origin[k]], LAMBDA o : o[1] = j)

\* C6 witness: an annotation with a comment was split in three, and its three
\* records are in the batch.
C6_ThreeSegmentsInTheBatch ==
    /\ LoopIsOver
    /\ \E j \in 1..Len(zotero_annotations) :
          /\ Truthy(zotero_annotations[j].comment)
          /\ RecordsOf(j) = <<<<j, 1, 3>>, <<j, 2, 3>>, <<j, 3, 3>>>>

\* C7 (as claimed): a record of the batch has location equal to the integer
\* value of page_label when page_label is numeric, and no location entry when
\* page_label is absent or not numeric.
C7_LocationIsTheNumericPageLabel ==
    \A k \in 1..Len(rw_highlights) :
        LET page_label == zotero_annotations[origin[k][1]].page_label
            record == rw_highlights[k]
        IN  IF Truthy(page_label) /\ isnumeric(page_label[1])
            THEN "location" \in DOMAIN record /\ record.location = decimal(page_label[1])
            ELSE "location" \notin DOMAIN record

\* C8: a call makes at most one upload, exactly one once its loop is over, and
\* makes it after every annotation was processed, with every record the
\* annotations gave the batch.
C8_OneUploadAfterTheLoop ==
    /\ Len(uploads) <= 1
    /\ LoopIsOver => Len(uploads) = 1
    /\ uploads # <<>> =>
          /\ processed = 1..Len(zotero_annotations)
          /\ uploads[1] = BatchOf(zotero_annotations)

\* C8 witness: a call over two annotations completed, its one upload holding the
\* records of both.
C8_UploadedBothAnnotations ==
    /\ pc = "done" /\ Len(zotero_annotations) = 2 /\ Len(uploads) = 1
    /\ \E k \in 1..Len(origin) : origin[k][1] = 1
    /\ \E k \in 1..Len(origin) : origin[k][1] = 2
    /\ Len(uploads[1]) = Len(origin)

\* annotation j has a record in the batch; it has an entry in failed_highlights
InBatch(j) == \E k \in 1..Len(origin) : origin[k][1] = j
InFailed(j) == \E k \in 1..Len(failed_origin) : failed_origin[k] = j

\* C14 (as claimed): once the loop is over every input annotation has a record
\* in the batch or an entry in failed_highlights, one whose text is white space
\* longer than the threshold included.
C14_EveryAnnotationIsAccountedFor ==
    LoopIsOver => \A j \in 1..Len(zotero_annotations) : InBatch(j) \/ InFailed(j)

\* C15: an annotation with an entry in failed_highlights has no record in the
\* batch, at any point of the loop and after it.
C15_FailedAnnotationHasNoRecord ==
    \A j \in 1..Len(zotero_annotations) : InFailed(j) => ~InBatch(j)

\* C15 witness: an annotation whose text gives two segments failed and left no
\* record, while the other annotation of the call has its records in the batch.
C15_FailedSplitAnnotationLeftNoRecord ==
    /\ LoopIsOver /\ Len(zotero_annotations) = 2
    /\ \E j \in 1..2 :
          /\ InFailed(j) /\ ~InBatch(j)
          /\ zotero_annotations[j].text # None
          /\ Len(_split_long_text(zotero_annotations[j].text[1])) = 2
    /\ rw_highlights # <<>>

\* the record of segment idx of n of the annotation
RecordOf(annot, idx, n) ==
    get_nonempty_params(
        _create_highlight_for_segment(annot, _split_long_text(annot.text[1])[idx],
                                      segment_note(annot.comment, idx, n)).hl)

\* C16: the batch is in input order.  A record of an earlier annotation stands
\* before those of a later one; the records of one annotation stand together, in
\* the order of their parts, one for every segment from the first to the last; the
\* record at each place is the one of that segment; and the batch is uploaded as
\* it stands.
C16_BatchIsInInputOrder ==
    /\ Len(origin) = Len(rw_highlights)
    /\ \A k \in 1..Len(origin) :
          /\ origin[k][2] \in 1..origin[k][3]
          /\ rw_highlights[k] = RecordOf(zotero_annotations[origin[k][1]], origin[k][2], origin[k][3])
          /\ IF k = 1 \/ origin[k - 1][1] # origin[k][1]
             THEN origin[k][2] = 1 /\ (k > 1 => origin[k - 1][1] < origin[k][1])
             ELSE origin[k][2] = origin[k - 1][2] + 1
          /\ (k = Len(origin) \/ origin[k + 1][1] # origin[k][1]) => origin[k][2] = origin[k][3]
    /\ \A j \in processed :
          (~InFailed(j) /\ _split_long_text(zotero_annotations[j].text[1]) # <<>>) => InBatch(j)
    /\ \A u \in 1..Len(uploads) : uploads[u] = rw_highlights

\* C16 witness: two equal annotations, each split in two, gave four records: the
\* two of the first, then the two of the second.
C16_TwoSplitAnnotationsInOrder ==
    /\ pc = "done" /\ Len(zotero_annotations) = 2
    /\ zotero_annotations[1] = zotero_annotations[2]
    /\ origin = <<<<1, 1, 2>>, <<1, 2, 2>>, <<2, 1, 2>>, <<2, 2, 2>>>>
    /\ uploads = <<rw_highlights>>
    /\ rw_highlights[1] # rw_highlights[2]


(***************************************************************************)
(* html_to_markdown on its own                                              *)
(***************************************************************************)
MaxBody == 4

\* the strings of exactly k tokens of S
StringsOver(S, k) == [1..k -> S]

TextTokens == {"x", " ", "\n", "#", "-"}

Bodies == UNION {StringsOver(TextTokens, k) : k \in 0..MaxBody}

Paragraph == <<"<p>", "x", "</p>">>

\* a <pre> element, alone, after a paragraph, after text
PreInputs ==
    {before \o <<"<pre>">> \o body \o <<"</pre>">> :
        before \in {<<>>, Paragraph, <<"x">>}, body \in Bodies}

\* a script or style element between two paragraphs: closed, not closed, in
\* capitals, closed in the other case
ScriptInputs ==
    {Paragraph \o <<open, "alert">> \o close \o Paragraph :
        open \in {"<script>", "<SCRIPT>", "<style>", "<STYLE>"},
        close \in {<<>>, <<"</script>">>, <<"</SCRIPT>">>, <<"</style>">>, <<"</STYLE>">>}}

EntityTokens == {"&amp;", "&lt;", "&gt;", "&amp;lt;"}

\* text, white space and entities, no tag
TextBodies == UNION {StringsOver(TextTokens \cup EntityTokens, k) : k \in 0..MaxBody}

HtmlInputs == PreInputs \cup ScriptInputs \cup TextBodies

HtmlInit ==
    /\ h_pc = "call" /\ html_content \in HtmlInputs /\ markdown = <<>>
    /\ ReadwiseIdle /\ SplitIdle /\ PostIdle /\ SinceIdle

HtmlToMarkdown ==
    /\ h_pc = "call"
    /\ markdown' = html_to_markdown(html_content)
    /\ h_pc' = "returned"
    /\ UNCHANGED <<html_content, readwise_vars, split_vars, post_vars, since_vars>>

HtmlNext == HtmlToMarkdown

SpecHtml == HtmlInit /\ [][HtmlNext]_vars


\* the input holds one <pre> element; PreBody is its text content
HasOnePre(html) ==
    /\ Cardinality({k \in 1..Len(html) : html[k] = "<pre>"}) = 1
    /\ Cardinality({k \in 1..Len(html) : html[k] = "</pre>"}) = 1
    /\ Search(html, {"<pre>"}, "</pre>")[1] # 0

PreBody(html) ==
    LET m == Search(html, {"<pre>"}, "</pre>") IN SubSeq(html, m[1] + 1, m[2] - 1)

\* the string holds the block, which starts a line and ends one
HoldsOnOwnLines(str, block) ==
    \E k \in 1..(Len(str) - Len(block) + 1) :
        /\ SubSeq(str, k, k + Len(block) - 1) = block
        /\ k = 1 \/ str[k - 1] = "\n"
        /\ k + Len(block) - 1 = Len(str) \/ str[k + Len(block)] = "\n"

\* C9 (as claimed): for a <pre> element the output holds a fenced block, the
\* fences on lines of their own, whose body is exactly the text content of the
\* element, no line, blank line or indentation of it added, removed or altered
\* (stated for the contents that do not end in white space: save_code_block
\* strips the end of the content before any clean-up pass runs).
C9_PreContentIsFencedVerbatim ==
    (/\ h_pc = "returned" /\ HasOnePre(html_content)
     /\ PreBody(html_content) # <<>> /\ Last(PreBody(html_content)) \notin Whitespace)
        => HoldsOnOwnLines(markdown, <<FENCE, "\n">> \o PreBody(html_content) \o <<"\n", FENCE>>)

\* C10 (as claimed): the text of a script or style element is nowhere in the
\* output, whether the element is closed or not and whatever the case of its tags
\* ("alert" is in the inputs only as the text of such an element).
C10_ScriptAndStyleTextIsRemoved ==
    h_pc = "returned" => \A k \in 1..Len(markdown) : markdown[k] # "alert"

(***************************************************************************)
(* The library version: reads and writes of the file 'since'                *)
(***************************************************************************)
MaxVersion == 120

\* what zotero_client.last_modified_version() returns
Versions == 0..MaxVersion

\* the file as a run finds it: absent, empty, a number, a number between white
\* space, signed, with an underscore, and texts that are no number
SinceContents ==
    {<<>>, <<"1", "2">>, <<"0">>, <<" ", "7", "\n">>, <<"-", "2">>, <<"+", "1">>,
     <<"1", "_", "0">>, <<"x">>, <<"1", ".", "5">>, <<"1", " ", "2">>, <<"_", "1">>,
     <<"1", "_", "_", "0">>, <<"-">>, <<"^2">>, <<"\n">>}

SinceInit ==
    /\ since \in {None} \cup {Some(c) : c \in SinceContents}
    /\ l_pc = "start" /\ l_returned = None /\ l_written = None /\ l_console = <<>>
    /\ ReadwiseIdle /\ SplitIdle /\ HtmlIdle /\ PostIdle

ReadLibraryVersion ==
    /\ l_pc \in {"start", "written", "write raised"}
    /\ LET r == read_library_version(since)
       IN  /\ l_console' = r.console
           /\ IF r.exc # ""
              THEN l_pc' = "read raised" /\ l_returned' = None
              ELSE l_returned' = Some(r.v) /\ UNCHANGED l_pc
    /\ UNCHANGED <<since, l_written, readwise_vars, split_vars, html_vars, post_vars>>

\* the file is opened, and so emptied, before the call of the client, which
\* returns the version or raises
WriteLibraryVersion ==
    /\ l_pc \in {"start", "written", "write raised"}
    /\ \E raises \in BOOLEAN, version \in Versions :
          LET file == open_for_writing(since)
          IN  IF raises
              THEN since' = file /\ l_written' = None /\ l_pc' = "write raised"
              ELSE /\ since' = file_write(file, str_int(version))
                   /\ l_written' = Some(version)
                   /\ l_pc' = "written"
    /\ l_returned' = None /\ l_console' = <<>>
    /\ UNCHANGED <<readwise_vars, split_vars, html_vars, post_vars>>

SinceNext == ReadLibraryVersion \/ WriteLibraryVersion

SpecSince == SinceInit /\ [][SinceNext]_vars

\* the file holds no integer: int() of its content raises ValueError
HoldsNoInteger(file) == int(file[1]).exc = "ValueError"

\* C13: read_library_version does not raise; it returns 0 when the file does
\* not exist or holds no integer; and the read that follows a completed
\* write_library_version returns the version the client gave to that write.
C13_ReadGivesZeroOrTheVersionWritten ==
    /\ l_pc # "read raised"
    /\ (l_returned # None /\ (since = None \/ HoldsNoInteger(since)))
          => l_returned = Some(0)
    /\ (l_returned # None /\ l_pc = "written") => l_returned = l_written

\* a read gave back the version, not 0, written over a file that held something else
C13_ReadBackTheVersionWritten ==
    /\ l_pc = "written" /\ l_returned = l_written /\ l_written = Some(105)

(***************************************************************************)
(* The clean-up passes on their own, applied to a string and to the result  *)
(***************************************************************************)
MaxPost == 7

PostInputs == UNION {StringsOver(TextTokens, k) : k \in 0..MaxPost}

PostInit ==
    /\ p_pc = "call" /\ p_content \in PostInputs /\ p_once = <<>> /\ p_twice = <<>>
    /\ ReadwiseIdle /\ SplitIdle /\ HtmlIdle /\ SinceIdle

PostProcess ==
    /\ p_pc = "call"
    /\ p_once' = post_process(p_content)
    /\ p_pc' = "once"
    /\ UNCHANGED <<p_content, p_twice, readwise_vars, split_vars, html_vars, since_vars>>

PostProcessAgain ==
    /\ p_pc = "once"
    /\ p_twice' = post_process(p_once)
    /\ p_pc' = "twice"
    /\ UNCHANGED <<p_content, p_once, readwise_vars, split_vars, html_vars, since_vars>>

PostNext == PostProcess \/ PostProcessAgain

SpecPost == PostInit /\ [][PostNext]_vars

\* C12 (as claimed): the passes applied to their own output leave it as it is.
C12_PostProcessIsIdempotent ==
    p_pc = "twice" => p_twice = p_once

\* C11 (as claimed): for an input of text and white space only (no tag), the
\* output is the text with its entities unescaped and its ends trimmed, nothing
\* else of it changed.
C11_TextOnlyIsUnescapedAndTrimmed ==
    (h_pc = "returned" /\ html_content \in TextBodies)
        => markdown = strip(unescape(html_content))

====
